---- MODULE Spec2Model ----
(***************************************************************************)
(* A model of the rule-evaluation dashboard of src/app.js: the evaluation  *)
(* functions (checkOneCondition, checkOneRule, checkAllRules), the loader  *)
(* (loadData) and the handlers that change the selection state.            *)
(*                                                                         *)
(* JavaScript values are tagged records (Num, Str, Null, Undefined, NaN);  *)
(* strings are sequences of one-character strings, so that String(),       *)
(* parseFloat(), toLowerCase() and includes() are computed, not assumed.   *)
(* Objects (a transaction, a feature vector) are functions from their own  *)
(* property names to values; property names are data names, none of them a *)
(* member of Object.prototype.  Numbers are integers; the quotient and the *)
(* product of the hit percentage are computed as doubles.                  *)
(***************************************************************************)
EXTENDS Integers, Sequences, FiniteSets, TLC

\* ------------------------------------------------------------ bounds
MaxConds == 3        \* conditions per rule in the evaluation harness
MaxTx == 2           \* transactions served by take_home_transactions.json
MaxRules == 2        \* rules served by take_home_rules.json
MaxFile == 40        \* transactions of the largest file rendered

\* ------------------------------------------------------- JS values
Num(n) == [k |-> "num", n |-> n, s |-> <<>>]
Str(s) == [k |-> "str", n |-> 0, s |-> s]
Null == [k |-> "null", n |-> 0, s |-> <<>>]
Undefined == [k |-> "undefined", n |-> 0, s |-> <<>>]
NaN == [k |-> "nan", n |-> 0, s |-> <<>>]

IsNumber(v) == v.k = "num"

\* obj[name]: the value of an own property, undefined when there is none
Get(obj, name) == IF name \in DOMAIN obj THEN obj[name] ELSE Undefined

DigitChars == <<"0", "1", "2", "3", "4", "5", "6", "7", "8", "9">>

DigitOf(c) == CHOOSE d \in 0..9 : DigitChars[d + 1] = c

IsDigit(c) == \E d \in 0..9 : DigitChars[d + 1] = c

RECURSIVE NatToChars(_)
NatToChars(n) ==
    IF n < 10 THEN <<DigitChars[n + 1]>>
    ELSE NatToChars(n \div 10) \o <<DigitChars[(n % 10) + 1]>>

\* String(v)
String(v) ==
    CASE v.k = "str" -> v.s
      [] v.k = "num" -> (IF v.n < 0 THEN <<"-">> ELSE <<>>)
                            \o NatToChars(IF v.n < 0 THEN 0 - v.n ELSE v.n)
      [] v.k = "nan" -> <<"N", "a", "N">>
      [] v.k = "null" -> <<"n", "u", "l", "l">>
      [] OTHER -> <<"u", "n", "d", "e", "f", "i", "n", "e", "d">>

RECURSIVE SkipSpaces(_)
SkipSpaces(s) ==
    IF s # <<>> /\ Head(s) = " " THEN SkipSpaces(Tail(s)) ELSE s

\* the value of the longest prefix of s made of digits, acc the value so far
RECURSIVE DigitsValue(_, _)
DigitsValue(s, acc) ==
    IF s # <<>> /\ IsDigit(Head(s))
    THEN DigitsValue(Tail(s), acc * 10 + DigitOf(Head(s)))
    ELSE acc

\* parseFloat(v): String(v) without its leading white space, an optional
\* sign, then the longest run of digits; NaN when there is no digit there.
ParseDigits(u, sign) ==
    IF u = <<>> \/ ~IsDigit(Head(u)) THEN NaN
    ELSE Num(sign * DigitsValue(u, 0))

ParseSigned(t) ==
    IF t = <<>> THEN NaN
    ELSE IF Head(t) = "-" THEN ParseDigits(Tail(t), 0 - 1)
    ELSE IF Head(t) = "+" THEN ParseDigits(Tail(t), 1)
    ELSE ParseDigits(t, 1)

ParseFloat(v) == ParseSigned(SkipSpaces(String(v)))

LowerChar(c) ==
    CASE c = "A" -> "a"
      [] c = "B" -> "b"
      [] c = "X" -> "x"
      [] OTHER -> c

RECURSIVE ToLowerCase(_)
ToLowerCase(s) ==
    IF s = <<>> THEN <<>>
    ELSE <<LowerChar(Head(s))>> \o ToLowerCase(Tail(s))

\* hay.includes(needle)
Includes(hay, needle) ==
    \E i \in 0..(Len(hay) - Len(needle)) :
        SubSeq(hay, i + 1, i + Len(needle)) = needle

\* the relational operators of JavaScript on numbers: false when an operand
\* is NaN
NumGt(a, b) == IsNumber(a) /\ IsNumber(b) /\ a.n > b.n
NumLt(a, b) == IsNumber(a) /\ IsNumber(b) /\ a.n < b.n
NumGe(a, b) == IsNumber(a) /\ IsNumber(b) /\ a.n >= b.n
NumLe(a, b) == IsNumber(a) /\ IsNumber(b) /\ a.n <= b.n

LateHour == 22
EarlyHour == 5

NotFound == Str(<<"N", "O", "T", " ", "F", "O", "U", "N", "D">>)

\* a feature vector looked up in featureVectors: found or undefined
Found(obj) == [def |-> TRUE, obj |-> obj]
Absent == [def |-> FALSE, obj |-> <<>>]

ConditionResult(condition, actual, pass) ==
    [field |-> condition.field, op |-> condition.op, value |-> condition.value,
     actual |-> actual, pass |-> pass, source |-> condition.source]

\* lines 63-73: the value the condition is about
ActualValue(condition, transaction, featureVector) ==
    IF condition.source = "raw" THEN Get(transaction, condition.field)
    ELSE IF featureVector.def THEN Get(featureVector.obj, condition.field)
    ELSE Null

\* OpPass with == and != comparing the parsed numbers
OpPassNumericEquality(op, actualString, valueString, actualNumber, conditionNumber) ==
    CASE op = "==" -> IsNumber(actualNumber) /\ actualNumber = conditionNumber
      [] op = "!=" -> ~(IsNumber(actualNumber) /\ actualNumber = conditionNumber)
      [] op = ">" -> NumGt(actualNumber, conditionNumber)
      [] op = "<" -> NumLt(actualNumber, conditionNumber)
      [] op = ">=" -> NumGe(actualNumber, conditionNumber)
      [] op = "<=" -> NumLe(actualNumber, conditionNumber)
      [] op = "contains" ->
            Includes(ToLowerCase(actualString), ToLowerCase(valueString))
      [] op = "out_of_hours" ->
            NumGe(actualNumber, Num(LateHour))
                \/ NumLe(actualNumber, Num(EarlyHour))
      [] OTHER -> FALSE

\* a number, 0 standing for NaN
OrZero(x) == IF IsNumber(x) THEN x ELSE Num(0)

\* OpPass with an operand that does not parse taken as 0
OpPassNaNAsZero(op, actualString, valueString, actualNumber, conditionNumber) ==
    CASE op = "==" -> actualString = valueString
      [] op = "!=" -> actualString # valueString
      [] op = ">" -> NumGt(OrZero(actualNumber), OrZero(conditionNumber))
      [] op = "<" -> NumLt(OrZero(actualNumber), OrZero(conditionNumber))
      [] op = ">=" -> NumGe(OrZero(actualNumber), OrZero(conditionNumber))
      [] op = "<=" -> NumLe(OrZero(actualNumber), OrZero(conditionNumber))
      [] op = "contains" ->
            Includes(ToLowerCase(actualString), ToLowerCase(valueString))
      [] op = "out_of_hours" ->
            NumGe(actualNumber, Num(LateHour))
                \/ NumLe(actualNumber, Num(EarlyHour))
      [] OTHER -> FALSE

\* OpPass with out_of_hours taking condition.value as the late hour
OpPassHourFromValue(op, actualString, valueString, actualNumber, conditionNumber) ==
    CASE op = "==" -> actualString = valueString
      [] op = "!=" -> actualString # valueString
      [] op = ">" -> NumGt(actualNumber, conditionNumber)
      [] op = "<" -> NumLt(actualNumber, conditionNumber)
      [] op = ">=" -> NumGe(actualNumber, conditionNumber)
      [] op = "<=" -> NumLe(actualNumber, conditionNumber)
      [] op = "contains" ->
            Includes(ToLowerCase(actualString), ToLowerCase(valueString))
      [] op = "out_of_hours" ->
            NumGe(actualNumber, conditionNumber)
                \/ NumLe(actualNumber, Num(EarlyHour))
      [] OTHER -> FALSE

\* OpPass with pass starting true, so that an unmatched op passes
OpPassDefaultTrue(op, actualString, valueString, actualNumber, conditionNumber) ==
    CASE op = "==" -> actualString = valueString
      [] op = "!=" -> actualString # valueString
      [] op = ">" -> NumGt(actualNumber, conditionNumber)
      [] op = "<" -> NumLt(actualNumber, conditionNumber)
      [] op = ">=" -> NumGe(actualNumber, conditionNumber)
      [] op = "<=" -> NumLe(actualNumber, conditionNumber)
      [] op = "contains" ->
            Includes(ToLowerCase(actualString), ToLowerCase(valueString))
      [] op = "out_of_hours" ->
            NumGe(actualNumber, Num(LateHour))
                \/ NumLe(actualNumber, Num(EarlyHour))
      [] OTHER -> TRUE

\* lines 85-113: the if-chain over condition.op, on the strings and the
\* parsed numbers of the two operands; pass stays false when no branch is
\* taken
OpPass(op, actualString, valueString, actualNumber, conditionNumber) ==
    CASE op = "==" -> actualString = valueString
      [] op = "!=" -> actualString # valueString
      [] op = ">" -> NumGt(actualNumber, conditionNumber)
      [] op = "<" -> NumLt(actualNumber, conditionNumber)
      [] op = ">=" -> NumGe(actualNumber, conditionNumber)
      [] op = "<=" -> NumLe(actualNumber, conditionNumber)
      [] op = "contains" ->
            Includes(ToLowerCase(actualString), ToLowerCase(valueString))
      [] op = "out_of_hours" ->
            NumGe(actualNumber, Num(LateHour))
                \/ NumLe(actualNumber, Num(EarlyHour))
      [] OTHER -> FALSE

\* ResultFor testing the value against null only
ResultForNullOnly(condition, actualValue) ==
    IF actualValue = Null
    THEN ConditionResult(condition, NotFound, FALSE)
    ELSE ConditionResult(condition, actualValue,
            OpPass(condition.op, String(actualValue), String(condition.value),
                   ParseFloat(actualValue), ParseFloat(condition.value)))

\* lines 75-115: the result for the value looked up
ResultFor(condition, actualValue) ==
    IF actualValue = Null \/ actualValue = Undefined
    THEN ConditionResult(condition, NotFound, FALSE)
    ELSE ConditionResult(condition, actualValue,
            OpPass(condition.op, String(actualValue), String(condition.value),
                   ParseFloat(actualValue), ParseFloat(condition.value)))

checkOneCondition(condition, transaction, featureVector) ==
    ResultFor(condition, ActualValue(condition, transaction, featureVector))

\* featureVectors[transaction.transaction_id]: the property key is the
\* string of the id
Lookup(fvs, key) == IF key \in DOMAIN fvs THEN Found(fvs[key]) ELSE Absent

FeatureVectorOf(fvs, transaction) ==
    Lookup(fvs, String(Get(transaction, "transaction_id")))

\* PushResults leaving the loop at the first result that failed
RECURSIVE PushResultsUntilFailure(_, _, _, _, _)
PushResultsUntilFailure(conditions, i, transaction, featureVector, results) ==
    IF i > Len(conditions) THEN results
    ELSE IF results # <<>> /\ results[Len(results)].pass = FALSE THEN results
    ELSE PushResultsUntilFailure(conditions, i + 1, transaction, featureVector,
            Append(results,
                   checkOneCondition(conditions[i], transaction, featureVector)))

\* lines 126-130: the loop that pushes one result per condition, from
\* condition i on, results being the list so far
RECURSIVE PushResults(_, _, _, _, _)
PushResults(conditions, i, transaction, featureVector, results) ==
    IF i > Len(conditions) THEN results
    ELSE PushResults(conditions, i + 1, transaction, featureVector,
            Append(results,
                   checkOneCondition(conditions[i], transaction, featureVector)))

\* AllPassed leaving the loop at the first result that passed
RECURSIVE AllPassedUntilPass(_, _)
AllPassedUntilPass(conditionResults, i) ==
    IF i > Len(conditionResults) THEN TRUE
    ELSE IF conditionResults[i].pass = FALSE THEN FALSE
    ELSE TRUE

\* AllPassed with allPassed assigned the pass of each result in turn
AllPassedLastWins(conditionResults, i) ==
    Len(conditionResults) = 0 \/ conditionResults[Len(conditionResults)].pass = TRUE

\* lines 133-140: allPassed, false from the first result that failed
RECURSIVE AllPassed(_, _)
AllPassed(conditionResults, i) ==
    IF i > Len(conditionResults) THEN TRUE
    ELSE IF conditionResults[i].pass = FALSE THEN FALSE
    ELSE AllPassed(conditionResults, i + 1)

\* checkOneRule, reading the feature vectors fvs
RuleResult(conditionResults) ==
    [pass |-> AllPassed(conditionResults, 1), results |-> conditionResults]

CheckOneRuleIn(fvs, rule, transaction) ==
    RuleResult(PushResults(rule.conditions, 1, transaction,
                           FeatureVectorOf(fvs, transaction), <<>>))

\* lines 156-160: the entry checkAllRules pushes
RuleEntry(rule, result) ==
    [rule |-> rule, pass |-> result.pass, results |-> result.results]

\* checkAllRules, reading the rules rs and the feature vectors fvs
RECURSIVE AllResults(_, _, _, _, _)
AllResults(rs, fvs, transaction, i, allResults) ==
    IF i > Len(rs) THEN allResults
    ELSE AllResults(rs, fvs, transaction, i + 1,
            Append(allResults,
                   RuleEntry(rs[i], CheckOneRuleIn(fvs, rs[i], transaction))))

CheckAllRulesIn(rs, fvs, transaction) == AllResults(rs, fvs, transaction, 1, <<>>)

\* --------------------------------------------------------- the data
\* What the three JSON files hold: transaction i, its feature vector and
\* rule j.  Amounts and hours alternate so that rules hit some transactions
\* and miss others.
TxId(i) == Str(<<"T">> \o NatToChars(i))

TxAt(i) ==
    [transaction_id |-> TxId(i),
     amount |-> Num(IF i % 2 = 1 THEN 1500 ELSE 500)]

FvAt(i) ==
    [transaction_id |-> TxId(i), hour |-> Num(IF i % 2 = 1 THEN 23 ELSE 12)]

Cond(field, source, op, value) ==
    [field |-> field, source |-> source, op |-> op, value |-> value]

ConditionsAt(j) ==
    CASE j % 3 = 1 -> <<Cond("amount", "raw", ">", Str(<<"1", "0", "0", "0">>))>>
      [] j % 3 = 2 -> <<Cond("hour", "derived", "out_of_hours", Num(0)),
                        Cond("amount", "raw", ">=", Num(500))>>
      [] OTHER -> <<Cond("amount", "raw", "==", Str(<<"5", "0", "0">>)),
                    Cond("hour", "derived", "<", Num(20)),
                    Cond("amount", "raw", "contains", Num(5))>>

\* rule 3 carries the rule_id of rule 1
RuleAt(j) ==
    [rule_id |-> <<"R">> \o NatToChars(IF j = 3 THEN 1 ELSE j),
     name |-> <<"N">> \o NatToChars(j),
     conditions |-> ConditionsAt(j)]

Prefix(F(_), n) == [i \in 1..n |-> F(i)]

TxLists == {Prefix(TxAt, n) : n \in 0..MaxTx}
FvLists == {Prefix(FvAt, n) : n \in 0..MaxTx}
RuleLists == {Prefix(RuleAt, n) : n \in 0..MaxRules}

\* ------------------------------------------------------------ state
VARIABLES
    selectedRule,     \* line 5: Absent (null, undefined) or Found(rule)
    selectedTx,       \* line 6: Absent (null) or Found(transaction)
    filterMode,       \* line 7
    stepIndex,        \* line 8
    transactions,     \* line 11
    featureVectors,   \* line 12: String(transaction_id) -> feature vector
    rules,            \* line 13
    loadPc,           \* where loadData stands
    txData, fvData, rulesData,   \* what the three fetches answer
    cards,            \* #rules-list as renderRules left it
    table,            \* #tx-table-body and the header counts of renderTable
    inspector,        \* #inspector-body as renderInspector left it
    statsView,        \* #stats-content as renderStats left it
    evals,            \* what the last handler evaluated
    call,             \* the last direct call of an evaluation function
    ret,              \* and what it returned
    firstEval         \* an earlier call of checkOneRule, with its result

selection == <<selectedRule, selectedTx, filterMode, stepIndex>>
collections == <<transactions, featureVectors, rules>>
served == <<txData, fvData, rulesData>>
views == <<cards, table, inspector, statsView>>
harness == <<call, ret, firstEval>>
vars == <<selection, collections, loadPc, served, views, evals, harness>>

NoStep == -1

Truthy(ref) == ref.def

KeyOf(obj) == String(Get(obj, "transaction_id"))

\* fvs[key] = item
Put(fvs, key, item) ==
    [x \in (DOMAIN fvs) \cup {key} |-> IF x = key THEN item ELSE fvs[x]]

\* lines 39-42: featureVectors[item.transaction_id] = item, from item i on
RECURSIVE IndexById(_, _, _)
IndexById(fvd, i, fvs) ==
    IF i > Len(fvd) THEN fvs
    ELSE IndexById(fvd, i + 1, Put(fvs, KeyOf(fvd[i]), fvd[i]))

\* the three collections hold all that was served
SameMap(f, g) == DOMAIN f = DOMAIN g /\ \A x \in DOMAIN f : f[x] = g[x]

Complete(txs, fvs, rs) ==
    txs = txData /\ rs = rulesData /\ SameMap(fvs, IndexById(fvData, 1, <<>>))

\* -------------------------------------------------------- rendering
\* lines 181-187: hitCount over the transactions from j on
RECURSIVE HitCount(_, _, _, _, _)
HitCount(rule, txs, fvs, j, hitCount) ==
    IF j > Len(txs) THEN hitCount
    ELSE HitCount(rule, txs, fvs, j + 1,
            IF CheckOneRuleIn(fvs, rule, txs[j]).pass = TRUE
            THEN hitCount + 1 ELSE hitCount)

\* A Number is a double: the bits of a significand, most significant first,
\* of which the last frac stand after the binary point; <<>> is 0.  Every
\* operation rounds its exact result to MantissaBits significant bits, to
\* the nearest and to the even one on a tie.
MantissaBits == 53

Double(bits, frac) == [bits |-> bits, frac |-> frac]

RECURSIVE Increment(_)
Increment(bits) ==
    IF bits = <<>> THEN <<1>>
    ELSE IF bits[Len(bits)] = 0 THEN Append(SubSeq(bits, 1, Len(bits) - 1), 1)
    ELSE Append(Increment(SubSeq(bits, 1, Len(bits) - 1)), 0)

\* the first n bits, rounded by the bits that follow them
RoundTo(bits, n) ==
    IF bits[n + 1] = 1 /\ (bits[n] = 1 \/ \E k \in (n + 2)..Len(bits) : bits[k] = 1)
    THEN Increment(SubSeq(bits, 1, n))
    ELSE SubSeq(bits, 1, n)

Rounded(bits, frac) ==
    IF Len(bits) <= MantissaBits THEN Double(bits, frac)
    ELSE Double(RoundTo(bits, MantissaBits), frac - (Len(bits) - MantissaBits))

\* h / t for 0 < h <= t: Shift(h, t) doublings bring h to Scaled(h, t), in
\* t..2t-1, and a long division gives the bits
RECURSIVE Shift(_, _)
Shift(h, t) == IF h >= t THEN 0 ELSE 1 + Shift(2 * h, t)

RECURSIVE Scaled(_, _)
Scaled(h, t) == IF h >= t THEN h ELSE Scaled(2 * h, t)

\* n more bits of r / t, and one last bit for the bits that follow: 0 when
\* they are all 0
RECURSIVE QuotientBits(_, _, _, _)
QuotientBits(r, t, n, bits) ==
    IF n = 0 THEN Append(bits, IF r = 0 THEN 0 ELSE 1)
    ELSE QuotientBits(IF r >= t THEN 2 * (r - t) ELSE 2 * r, t, n - 1,
                      Append(bits, IF r >= t THEN 1 ELSE 0))

Divide(h, t) ==
    IF h = 0 THEN Double(<<>>, 0)
    ELSE Rounded(QuotientBits(Scaled(h, t), t, MantissaBits + 1, <<>>),
                 Shift(h, t) + MantissaBits + 1)

\* bits * m, from the last bit to the first
RECURSIVE TimesBits(_, _, _, _, _)
TimesBits(bits, m, i, carry, out) ==
    IF i = 0
    THEN (IF carry = 0 THEN out
          ELSE TimesBits(bits, m, 0, carry \div 2, <<carry % 2>> \o out))
    ELSE TimesBits(bits, m, i - 1, (bits[i] * m + carry) \div 2,
                   <<(bits[i] * m + carry) % 2>> \o out)

Times(x, m) == Rounded(TimesBits(x.bits, m, Len(x.bits), 0, <<>>), x.frac)

RECURSIVE BitsValue(_, _, _)
BitsValue(bits, n, i) ==
    IF i > n THEN 0 ELSE bits[i] * 2 ^ (n - i) + BitsValue(bits, n, i + 1)

\* Math.round: the integer part, and one more when the fraction is a half
\* or more
MathRound(x) ==
    IF Len(x.bits) < x.frac THEN 0
    ELSE BitsValue(x.bits, Len(x.bits) - x.frac, 1)
            + (IF x.frac = 0 THEN 0 ELSE x.bits[Len(x.bits) - x.frac + 1])

\* Math.round((hitCount / total) * 100): 0 / 0 is NaN
RoundedPercent(hitCount, total) ==
    IF total = 0 THEN NaN
    ELSE Num(MathRound(Times(Divide(hitCount, total), 100)))

\* the same, computed once for every hitCount of every total up to MaxFile
RoundedPercents ==
    [total \in 0..MaxFile |->
        [hitCount \in 0..total |-> RoundedPercent(hitCount, total)]]

HitPercent(hitCount, total) == RoundedPercents[total][hitCount]

\* renderRules: one card per rule
Card(rule, hitCount, total) ==
    [rule |-> rule, hitCount |-> hitCount,
     hitPercent |-> HitPercent(hitCount, total)]

RenderRules(rs, txs, fvs) ==
    [i \in 1..Len(rs) |-> Card(rs[i], HitCount(rs[i], txs, fvs, 1, 0), Len(txs))]

\* lines 262-270: evaluationResults[tx.transaction_id], which the last
\* transaction of that id has written
LastOfKey(txs, key) ==
    CHOOSE i \in 1..Len(txs) :
        /\ KeyOf(txs[i]) = key
        /\ \A j \in (i + 1)..Len(txs) : KeyOf(txs[j]) # key

EvaluationResult(txs, fvs, selRule, tx) ==
    IF Truthy(selRule)
    THEN Found(CheckOneRuleIn(fvs, selRule.obj, txs[LastOfKey(txs, KeyOf(tx))]))
    ELSE Absent

\* lines 273-293: the pass or fail filter
Shown(mode, evalResult) ==
    CASE mode = "pass" -> Truthy(evalResult) /\ evalResult.obj.pass = TRUE
      [] mode = "fail" -> ~Truthy(evalResult) \/ evalResult.obj.pass = FALSE
      [] OTHER -> TRUE

RECURSIVE TransactionsToShow(_, _, _, _, _, _)
TransactionsToShow(txs, fvs, selRule, mode, i, filtered) ==
    IF i > Len(txs) THEN filtered
    ELSE TransactionsToShow(txs, fvs, selRule, mode, i + 1,
            IF Shown(mode, EvaluationResult(txs, fvs, selRule, txs[i]))
            THEN Append(filtered, txs[i]) ELSE filtered)

\* lines 296-305
RECURSIVE PassCount(_, _, _, _, _)
PassCount(txs, fvs, selRule, i, passCount) ==
    IF i > Len(txs) THEN passCount
    ELSE PassCount(txs, fvs, selRule, i + 1,
            IF Shown("pass", EvaluationResult(txs, fvs, selRule, txs[i]))
            THEN passCount + 1 ELSE passCount)

\* renderTable, the search box being empty
Table(rows, passCount, total) ==
    [rows |-> rows, passCount |-> passCount, failCount |-> total - passCount]

RenderTable(txs, fvs, selRule, mode) ==
    Table(TransactionsToShow(txs, fvs, selRule, mode, 1, <<>>),
          PassCount(txs, fvs, selRule, 1, 0), Len(txs))

NoInspection == [shown |-> FALSE, active |-> Absent, all |-> <<>>, step |-> NoStep]

\* renderInspector: the breakdown of the selected rule, the highlighted step
\* and one row per rule
RenderInspector(rs, fvs, selRule, selTx, step) ==
    IF ~Truthy(selTx) THEN NoInspection
    ELSE [shown |-> TRUE,
          active |-> IF Truthy(selRule)
                     THEN Found(CheckOneRuleIn(fvs, selRule.obj, selTx.obj))
                     ELSE Absent,
          all |-> CheckAllRulesIn(rs, fvs, selTx.obj),
          step |-> step]

\* lines 715-721
RECURSIVE FlaggedTransactions(_, _, _, _, _)
FlaggedTransactions(rule, txs, fvs, j, flagged) ==
    IF j > Len(txs) THEN flagged
    ELSE FlaggedTransactions(rule, txs, fvs, j + 1,
            IF CheckOneRuleIn(fvs, rule, txs[j]).pass = TRUE
            THEN Append(flagged, txs[j]) ELSE flagged)

\* lines 726-729: totalAmount + amount, of numbers (NaN when an amount is
\* missing)
RECURSIVE TotalAmount(_, _, _)
TotalAmount(flagged, j, totalAmount) ==
    IF j > Len(flagged) THEN totalAmount
    ELSE TotalAmount(flagged, j + 1,
            IF IsNumber(totalAmount) /\ IsNumber(Get(flagged[j], "amount"))
            THEN Num(totalAmount.n + Get(flagged[j], "amount").n) ELSE NaN)

\* renderStats: one card per rule
StatCard(flagged, total) ==
    [hitPercent |-> HitPercent(Len(flagged), total),
     flagged |-> Len(flagged),
     totalAmount |-> TotalAmount(flagged, 1, Num(0))]

RenderStats(rs, txs, fvs) ==
    [i \in 1..Len(rs) |->
        StatCard(FlaggedTransactions(rs[i], txs, fvs, 1, <<>>), Len(txs))]

\* how many times each render function calls checkOneRule
RulesEvals(rs, txs) == Len(rs) * Len(txs)
TableEvals(txs, selRule) == IF Truthy(selRule) THEN Len(txs) ELSE 0
InspectorEvals(rs, selRule, selTx) ==
    IF Truthy(selTx) THEN (IF Truthy(selRule) THEN 1 ELSE 0) + Len(rs) ELSE 0

\* what a handler that called checkOneRule count times evaluated: nothing,
\* or rules against transactions with the collections complete or not
Evaluated(count, txs, fvs, rs) ==
    IF count = 0 THEN "nothing"
    ELSE IF Complete(txs, fvs, rs) THEN "complete" ELSE "partial"

\* renderAll on the globals given
RenderAll(rs, txs, fvs, selRule, selTx, mode, step) ==
    /\ cards' = RenderRules(rs, txs, fvs)
    /\ table' = RenderTable(txs, fvs, selRule, mode)
    /\ inspector' = RenderInspector(rs, fvs, selRule, selTx, step)
    /\ evals' = Evaluated(RulesEvals(rs, txs) + TableEvals(txs, selRule)
                              + InspectorEvals(rs, selRule, selTx),
                          txs, fvs, rs)
    /\ UNCHANGED statsView

\* renderInspector alone, on the current collections
InspectorOnly(selRule, selTx, step) ==
    /\ inspector' = RenderInspector(rules, featureVectors, selRule, selTx, step)
    /\ evals' = Evaluated(InspectorEvals(rules, selRule, selTx),
                          transactions, featureVectors, rules)
    /\ UNCHANGED <<cards, table, statsView>>

\* ----------------------------------------------------- the dashboard
NoCondition == Cond("", "", "", Null)
NoRule == [rule_id |-> <<>>, name |-> <<>>, conditions |-> <<>>]
NoConditionResult == ConditionResult(NoCondition, Null, FALSE)
NoRuleResult == [pass |-> FALSE, results |-> <<>>]
NoCall ==
    [fn |-> "none", condition |-> NoCondition, rule |-> NoRule,
     transaction |-> <<>>, featureVector |-> Absent]
NoRet == [condition |-> NoConditionResult, rule |-> NoRuleResult, all |-> <<>>]

\* lines 5-13: the globals as the script sets them, nothing rendered yet
Init ==
    /\ selectedRule = Absent
    /\ selectedTx = Absent
    /\ filterMode = "all"
    /\ stepIndex = NoStep
    /\ transactions = <<>>
    /\ featureVectors = <<>>
    /\ rules = <<>>
    /\ loadPc = "idle"
    /\ txData \in TxLists
    /\ fvData \in FvLists
    /\ rulesData \in RuleLists
    /\ cards = <<>>
    /\ table = [rows |-> <<>>, passCount |-> 0, failCount |-> 0]
    /\ inspector = NoInspection
    /\ statsView = <<>>
    /\ evals = Evaluated(0, <<>>, <<>>, <<>>)
    /\ call = NoCall
    /\ ret = NoRet
    /\ firstEval = Absent

Awaiting ==
    {"fetchTx", "fetchFv", "fetchRules", "jsonTx", "jsonFv", "jsonRules"}

AfterAwait(pc) ==
    CASE pc = "fetchTx" -> "fetchFv"
      [] pc = "fetchFv" -> "fetchRules"
      [] pc = "fetchRules" -> "jsonTx"
      [] pc = "jsonTx" -> "jsonFv"
      [] OTHER -> "jsonRules"

\* loadData is called and suspends at its first await (line 23)
LoadDataStart ==
    /\ loadPc = "idle"
    /\ loadPc' = "fetchTx"
    /\ UNCHANGED <<selection, collections, served, views, evals, harness>>

\* lines 23-29: an await answers and loadData suspends at the next one
LoadDataAwait ==
    /\ loadPc \in Awaiting \ {"jsonRules"}
    /\ loadPc' = AfterAwait(loadPc)
    /\ UNCHANGED <<selection, collections, served, views, evals, harness>>

\* a fetch or a json() rejects: loadData ends there
LoadDataFail ==
    /\ loadPc \in Awaiting
    /\ loadPc' = "failed"
    /\ UNCHANGED <<selection, collections, served, views, evals, harness>>

\* LoadDataFinish with renderAll called before the loop that fills
\* featureVectors
LoadDataFinishRenderFirst ==
    /\ loadPc = "jsonRules"
    /\ loadPc' = "done"
    /\ transactions' = txData
    /\ rules' = rulesData
    /\ selectedRule' = IF Len(rulesData) >= 1 THEN Found(rulesData[1]) ELSE Absent
    /\ RenderAll(rules', transactions', featureVectors, selectedRule',
                 selectedTx, filterMode, stepIndex)
    /\ featureVectors' = IndexById(fvData, 1, featureVectors)
    /\ UNCHANGED <<selectedTx, filterMode, stepIndex, served, harness>>

\* lines 30-51: the last await answers; the three collections are assigned,
\* the first rule is selected and everything is rendered, in one turn
LoadDataFinish ==
    /\ loadPc = "jsonRules"
    /\ loadPc' = "done"
    /\ transactions' = txData
    /\ featureVectors' = IndexById(fvData, 1, featureVectors)
    /\ rules' = rulesData
    /\ selectedRule' = IF Len(rulesData) >= 1 THEN Found(rulesData[1]) ELSE Absent
    /\ RenderAll(rules', transactions', featureVectors', selectedRule',
                 selectedTx, filterMode, stepIndex)
    /\ UNCHANGED <<selectedTx, filterMode, stepIndex, served, harness>>

\* lines 222-227: a click on the card of rule i
ClickRuleCard(i) ==
    /\ selectedRule' = Found(cards[i].rule)
    /\ selectedTx' = Absent
    /\ stepIndex' = NoStep
    /\ UNCHANGED <<filterMode, collections, loadPc, served, harness>>
    /\ RenderAll(rules, transactions, featureVectors, selectedRule',
                 selectedTx', filterMode, stepIndex')

\* ClickRow keeping the clicked transaction in featureVectors, under its id
ClickRowStoringVector(i) ==
    /\ selectedTx' = Found(table.rows[i])
    /\ stepIndex' = NoStep
    /\ featureVectors' = Put(featureVectors, KeyOf(table.rows[i]), table.rows[i])
    /\ InspectorOnly(selectedRule, selectedTx', stepIndex')
    /\ UNCHANGED <<selectedRule, filterMode, transactions, rules, loadPc, served,
                   harness>>

\* lines 363-375: a click on row i of the table
ClickRow(i) ==
    /\ selectedTx' = Found(table.rows[i])
    /\ stepIndex' = NoStep
    /\ InspectorOnly(selectedRule, selectedTx', stepIndex')
    /\ UNCHANGED <<selectedRule, filterMode, collections, loadPc, served, harness>>

\* lines 592-610 (the scroll of the timeout changes no state)
goToNextStep ==
    /\ Truthy(selectedRule) /\ Truthy(selectedTx)
    /\ stepIndex' = IF stepIndex < Len(selectedRule.obj.conditions) - 1
                    THEN stepIndex + 1 ELSE stepIndex
    /\ InspectorOnly(selectedRule, selectedTx, stepIndex')
    /\ UNCHANGED <<selectedRule, selectedTx, filterMode, collections, loadPc,
                   served, harness>>

\* lines 613-628
goToPrevStep ==
    /\ Truthy(selectedRule) /\ Truthy(selectedTx)
    /\ stepIndex' = IF stepIndex > 0 THEN stepIndex - 1 ELSE stepIndex
    /\ InspectorOnly(selectedRule, selectedTx, stepIndex')
    /\ UNCHANGED <<selectedRule, selectedTx, filterMode, collections, loadPc,
                   served, harness>>

\* lines 631-634
resetStepDebugger ==
    /\ stepIndex' = NoStep
    /\ InspectorOnly(selectedRule, selectedTx, stepIndex')
    /\ UNCHANGED <<selectedRule, selectedTx, filterMode, collections, loadPc,
                   served, harness>>

\* lines 638-643: the first rule of that id, from rule i on
RECURSIVE FirstRuleOfId(_, _, _, _)
FirstRuleOfId(rs, ruleId, i, selRule) ==
    IF i > Len(rs) THEN selRule
    ELSE IF rs[i].rule_id = ruleId THEN Found(rs[i])
    ELSE FirstRuleOfId(rs, ruleId, i + 1, selRule)

\* switchToRule clearing the selected transaction as a card click does
switchToRuleClearingTx(ruleId) ==
    /\ selectedRule' = FirstRuleOfId(rules, ruleId, 1, selectedRule)
    /\ selectedTx' = Absent
    /\ stepIndex' = NoStep
    /\ RenderAll(rules, transactions, featureVectors, selectedRule',
                 selectedTx', filterMode, stepIndex')
    /\ UNCHANGED <<filterMode, collections, loadPc, served, harness>>

\* switchToRule without its assignment to stepIndex
switchToRuleKeepingStep(ruleId) ==
    /\ selectedRule' = FirstRuleOfId(rules, ruleId, 1, selectedRule)
    /\ RenderAll(rules, transactions, featureVectors, selectedRule',
                 selectedTx, filterMode, stepIndex)
    /\ UNCHANGED <<selectedTx, filterMode, stepIndex, collections, loadPc, served,
                   harness>>

\* lines 637-646
switchToRule(ruleId) ==
    /\ selectedRule' = FirstRuleOfId(rules, ruleId, 1, selectedRule)
    /\ stepIndex' = NoStep
    /\ UNCHANGED <<selectedTx, filterMode, collections, loadPc, served, harness>>
    /\ RenderAll(rules, transactions, featureVectors, selectedRule',
                 selectedTx, filterMode, stepIndex')

\* lines 766-776
setFilter(mode) ==
    /\ filterMode' = mode
    /\ table' = RenderTable(transactions, featureVectors, selectedRule, mode)
    /\ evals' = Evaluated(TableEvals(transactions, selectedRule),
                          transactions, featureVectors, rules)
    /\ UNCHANGED <<selectedRule, selectedTx, stepIndex, collections, loadPc,
                   served, cards, inspector, statsView, harness>>

\* lines 778-802; what renderMatrix writes to #matrix-content is read by no
\* handler and is not kept
switchView(view) ==
    /\ statsView' = IF view = "stats"
                    THEN RenderStats(rules, transactions, featureVectors)
                    ELSE statsView
    /\ evals' = Evaluated(IF view \in {"matrix", "stats"}
                          THEN RulesEvals(rules, transactions) ELSE 0,
                          transactions, featureVectors, rules)
    /\ UNCHANGED <<selection, collections, loadPc, served, cards, table,
                   inspector, harness>>

FilterModes == {"all", "pass", "fail"}
ViewNames == {"debug", "matrix", "stats"}
\* the ids a row of the inspector can pass, and one no rule has
RuleIds == {RuleAt(j).rule_id : j \in 1..(MaxRules + 1)}

Next ==
    \/ LoadDataStart
    \/ LoadDataAwait
    \/ LoadDataFail
    \/ LoadDataFinish
    \/ \E i \in 1..Len(cards) : ClickRuleCard(i)
    \/ \E i \in 1..Len(table.rows) : ClickRow(i)
    \/ goToNextStep
    \/ goToPrevStep
    \/ resetStepDebugger
    \/ \E ruleId \in RuleIds : switchToRule(ruleId)
    \/ \E mode \in FilterModes : setFilter(mode)
    \/ \E view \in ViewNames : switchView(view)

Spec == Init /\ [][Next]_vars

\* ------------------------------------------- the evaluation functions
\* called directly, on inputs drawn from the sets below, in the state that a
\* finished loadData leaves
Fields == {"amount", "hour"}
Sources == {"raw", "derived", "computed"}
Ops == {"==", "!=", ">", "<", ">=", "<=", "contains", "out_of_hours", "~="}
NumericOps == {">", "<", ">=", "<="}

ConditionValues ==
    {Num(5), Num(22), Str(<<"5">>), Str(<<"1", "2", "x">>), Str(<<"a", "b">>),
     Str(<<"A", "B">>)}

PresentValues ==
    {Num(5), Num(6), Num(12), Num(21), Num(22), Num(23), Num(0 - 5),
     Str(<<"5">>), Str(<<" ", "2", "2", "a">>), Str(<<"X", "a", "B">>),
     Str(<<"a", "b">>)}

Conditions ==
    {Cond(f, src, op, v) : f \in Fields, src \in Sources, op \in Ops,
                           v \in ConditionValues}

\* a transaction with or without an amount, a feature vector with or without
\* an hour, and no feature vector at all
TxWith(v) == [transaction_id |-> TxId(1), amount |-> v]
TxWithout == [transaction_id |-> TxId(1)]
FvWith(v) == [transaction_id |-> TxId(1), hour |-> v]
FvWithout == [transaction_id |-> TxId(1)]

Arg(tx, fv) == [tx |-> tx, fv |-> fv]

ConditionArgs ==
    {Arg(TxWith(v), fv) : v \in PresentValues \cup {Null},
                          fv \in {Absent, Found(FvWithout)}}
        \cup {Arg(TxWithout, Found(FvWith(v))) : v \in PresentValues \cup {Null}}
        \cup {Arg(TxWithout, Absent), Arg(TxWithout, Found(FvWithout))}

\* the conditions the rules of the harness are made of
RuleConditions ==
    {Cond("amount", "raw", ">", Str(<<"1", "0", "0", "0">>)),
     Cond("amount", "raw", "<=", Num(1500)),
     Cond("hour", "derived", "out_of_hours", Num(0)),
     Cond("hour", "derived", "==", Str(<<"1", "2">>))}

RECURSIVE SeqsUpTo(_, _)
SeqsUpTo(S, n) ==
    IF n = 0 THEN {<<>>}
    ELSE SeqsUpTo(S, n - 1)
            \cup {Append(q, x) : q \in {r \in SeqsUpTo(S, n - 1) : Len(r) = n - 1},
                                 x \in S}

HarnessRules ==
    {[rule_id |-> <<"R", "0">>, name |-> <<"N", "0">>, conditions |-> cs] :
        cs \in SeqsUpTo(RuleConditions, MaxConds)}

\* the transactions served and one more, which has no feature vector
HarnessTxs == {TxAt(i) : i \in 1..(MaxTx + 1)}

InitEval ==
    /\ txData = Prefix(TxAt, MaxTx)
    /\ fvData \in FvLists
    /\ rulesData \in RuleLists
    /\ transactions = txData
    /\ featureVectors = IndexById(fvData, 1, <<>>)
    /\ rules = rulesData
    /\ selectedRule = IF Len(rulesData) >= 1 THEN Found(rulesData[1]) ELSE Absent
    /\ selectedTx = Absent
    /\ filterMode = "all"
    /\ stepIndex = NoStep
    /\ loadPc = "done"
    /\ cards = RenderRules(rules, transactions, featureVectors)
    /\ table = RenderTable(transactions, featureVectors, selectedRule, filterMode)
    /\ inspector = NoInspection
    /\ statsView = <<>>
    /\ evals = Evaluated(RulesEvals(rules, transactions)
                            + TableEvals(transactions, selectedRule),
                         transactions, featureVectors, rules)
    /\ call = NoCall
    /\ ret = NoRet
    /\ firstEval = Absent

\* EvaluationWrites with the loop of checkOneRule counting in stepIndex
EvaluationWritesStepIndex ==
    /\ stepIndex' = Len(call'.rule.conditions)
    /\ UNCHANGED <<selectedRule, selectedTx, filterMode, collections>>

\* lines 60-164: the evaluation functions assign no global and no property
\* of an argument
EvaluationWrites == UNCHANGED <<selection, collections>>

Called(fn, condition, rule, transaction, featureVector) ==
    [fn |-> fn, condition |-> condition, rule |-> rule,
     transaction |-> transaction, featureVector |-> featureVector]

CallCheckOneCondition ==
    /\ call = NoCall
    /\ \E condition \in Conditions, a \in ConditionArgs :
        /\ call' = Called("checkOneCondition", condition, NoRule, a.tx, a.fv)
        /\ ret' = [NoRet EXCEPT
                      !.condition = checkOneCondition(condition, a.tx, a.fv)]
        /\ EvaluationWrites
        /\ UNCHANGED <<loadPc, served, views, evals, firstEval>>

CallCheckOneRule ==
    /\ call = NoCall
    /\ \E rule \in HarnessRules \cup {rules[i] : i \in 1..Len(rules)},
          transaction \in HarnessTxs :
        /\ call' = Called("checkOneRule", NoCondition, rule, transaction, Absent)
        /\ ret' = [NoRet EXCEPT
                      !.rule = CheckOneRuleIn(featureVectors, rule, transaction)]
        /\ EvaluationWrites
        /\ UNCHANGED <<loadPc, served, views, evals, firstEval>>

CallCheckAllRules ==
    /\ call = NoCall
    /\ \E transaction \in HarnessTxs :
        /\ call' = Called("checkAllRules", NoCondition, NoRule, transaction, Absent)
        /\ ret' = [NoRet EXCEPT
                      !.all = CheckAllRulesIn(rules, featureVectors, transaction)]
        /\ EvaluationWrites
        /\ UNCHANGED <<loadPc, served, views, evals, firstEval>>

\* the caller drops the result and is ready for the next call
Return ==
    /\ call # NoCall
    /\ call' = NoCall
    /\ ret' = NoRet
    /\ UNCHANGED <<selection, collections, loadPc, served, views, evals, firstEval>>

NextEval ==
    CallCheckOneCondition \/ CallCheckOneRule \/ CallCheckAllRules \/ Return

SpecEval == InitEval /\ [][NextEval]_vars

\* ------------------------------------------------------ larger files
\* loadData and the statistics view on one rule and a file of up to MaxFile
\* transactions, of which the first pass the rule and the others do not
FileTx(i, passing) ==
    [transaction_id |-> TxId(i), amount |-> Num(IF i <= passing THEN 1500 ELSE 500)]

Files ==
    UNION {{[i \in 1..total |-> FileTx(i, passing)] : passing \in 0..total} :
           total \in 1..MaxFile}

InitLarge ==
    /\ selectedRule = Absent
    /\ selectedTx = Absent
    /\ filterMode = "all"
    /\ stepIndex = NoStep
    /\ transactions = <<>>
    /\ featureVectors = <<>>
    /\ rules = <<>>
    /\ loadPc = "idle"
    /\ txData \in Files
    /\ fvData = <<>>
    /\ rulesData = <<RuleAt(1)>>
    /\ cards = <<>>
    /\ table = [rows |-> <<>>, passCount |-> 0, failCount |-> 0]
    /\ inspector = NoInspection
    /\ statsView = <<>>
    /\ evals = Evaluated(0, <<>>, <<>>, <<>>)
    /\ call = NoCall
    /\ ret = NoRet
    /\ firstEval = Absent

NextLarge ==
    \/ LoadDataStart
    \/ LoadDataAwait
    \/ LoadDataFinish
    \/ switchView("stats")

SpecLarge == InitLarge /\ [][NextLarge]_vars

\* ------------------------------------------------- evaluating again
\* checkOneRule called on a loaded rule and a loaded transaction, and called
\* again on the same two after any handlers of the dashboard have run
Evaluation(rule, transaction, result) ==
    [rule |-> rule, transaction |-> transaction, result |-> result]

InitAgain ==
    /\ InitEval
    /\ fvData = Prefix(FvAt, MaxTx - 1)
    /\ rulesData = Prefix(RuleAt, MaxRules)

EvaluateFirst ==
    /\ call = NoCall
    /\ firstEval = Absent
    /\ \E i \in 1..Len(rules), j \in 1..Len(transactions) :
        /\ firstEval' = Found(Evaluation(rules[i], transactions[j],
                            CheckOneRuleIn(featureVectors, rules[i], transactions[j])))
        /\ EvaluationWrites
        /\ UNCHANGED <<loadPc, served, views, evals, call, ret>>

EvaluateAgain ==
    /\ call = NoCall
    /\ Truthy(firstEval)
    /\ call' = Called("checkOneRule", NoCondition, firstEval.obj.rule,
                      firstEval.obj.transaction, Absent)
    /\ ret' = [NoRet EXCEPT
                  !.rule = CheckOneRuleIn(featureVectors, firstEval.obj.rule,
                                          firstEval.obj.transaction)]
    /\ EvaluationWrites
    /\ UNCHANGED <<loadPc, served, views, evals, firstEval>>

\* a handler runs between two calls, never during one
Handler ==
    \/ \E i \in 1..Len(cards) : ClickRuleCard(i)
    \/ \E i \in 1..Len(table.rows) : ClickRow(i)
    \/ goToNextStep
    \/ goToPrevStep
    \/ resetStepDebugger
    \/ \E ruleId \in RuleIds : switchToRule(ruleId)
    \/ \E mode \in FilterModes : setFilter(mode)
    \/ \E view \in ViewNames : switchView(view)

NextAgain ==
    \/ call = NoCall /\ Handler
    \/ EvaluateFirst
    \/ EvaluateAgain
    \/ Return

SpecAgain == InitAgain /\ [][NextAgain]_vars

\* ----------------------------------------------------------- claims
IsCall(fn) == call.fn = fn

\* the value the called condition looks up is missing: a raw field absent
\* or null, or no feature vector, or one without the field or with null there
MissingValue ==
    IF call.condition.source = "raw"
    THEN \/ call.condition.field \notin DOMAIN call.transaction
         \/ call.transaction[call.condition.field] = Null
    ELSE \/ ~call.featureVector.def
         \/ call.condition.field \notin DOMAIN call.featureVector.obj
         \/ call.featureVector.obj[call.condition.field] = Null

\* the value looked up, when it is not missing
LookedUp ==
    IF call.condition.source = "raw"
    THEN call.transaction[call.condition.field]
    ELSE call.featureVector.obj[call.condition.field]

PresentCall == IsCall("checkOneCondition") /\ ~MissingValue

\* C1: checkOneRule returns one result per condition of the rule, the i-th
\* being the evaluation of the i-th condition, whatever failed before it.
C1_OneResultPerCondition ==
    IsCall("checkOneRule") =>
        /\ Len(ret.rule.results) = Len(call.rule.conditions)
        /\ \A i \in 1..Len(call.rule.conditions) :
              ret.rule.results[i] =
                  checkOneCondition(call.rule.conditions[i], call.transaction,
                      FeatureVectorOf(featureVectors, call.transaction))

\* a rule of three conditions whose first fails and whose third passes
C1_Witness ==
    /\ IsCall("checkOneRule")
    /\ Len(call.rule.conditions) = 3
    /\ Len(ret.rule.results) = 3
    /\ ret.rule.results[1].pass = FALSE
    /\ ret.rule.results[3].pass = TRUE

\* C2: the pass of checkOneRule is true exactly when every result of the
\* returned list has pass = true.
C2_PassIffAllPass ==
    IsCall("checkOneRule") =>
        (ret.rule.pass = TRUE
            <=> \A i \in 1..Len(ret.rule.results) : ret.rule.results[i].pass = TRUE)

\* a rule whose first condition passes and whose second fails
C2_Witness ==
    /\ IsCall("checkOneRule")
    /\ Len(ret.rule.results) >= 2
    /\ ret.rule.results[1].pass = TRUE
    /\ ret.rule.results[2].pass = FALSE
    /\ ret.rule.pass = FALSE

\* C3: a missing value gives pass = false and actual = "NOT FOUND" whatever
\* the operator; a transaction without an entry in featureVectors gets that
\* for every condition that is not raw.
C3_MissingIsNotFound ==
    /\ (IsCall("checkOneCondition") /\ MissingValue) =>
          (ret.condition.pass = FALSE /\ ret.condition.actual = NotFound)
    /\ (IsCall("checkOneRule")
            /\ KeyOf(call.transaction) \notin DOMAIN featureVectors) =>
          \A i \in 1..Len(ret.rule.results) :
              ret.rule.results[i].source # "raw" =>
                  /\ ret.rule.results[i].pass = FALSE
                  /\ ret.rule.results[i].actual = NotFound

\* != on a field the feature vector does not have
C3_Witness ==
    /\ IsCall("checkOneCondition")
    /\ call.condition.op = "!="
    /\ call.condition.source = "derived"
    /\ call.featureVector.def
    /\ call.condition.field \notin DOMAIN call.featureVector.obj
    /\ ret.condition.actual = NotFound
    /\ ret.condition.pass = FALSE

\* C4: no rule is evaluated against a transaction while a collection lacks
\* something that was served: a handler that evaluates runs on complete data.
C4_NoPartialEvaluation ==
    evals # "partial" /\ (evals = "complete" => loadPc = "done")

\* setFilter ran while loadData was suspended at its last await
C4_Witness ==
    /\ loadPc = "jsonRules"
    /\ filterMode = "fail"
    /\ Len(txData) > 0
    /\ Len(rulesData) > 0
    /\ evals = "nothing"

\* C5: with no transaction loaded every rule's hit percentage is 0.
C5_ZeroPercentOfNothing ==
    (loadPc = "done" /\ transactions = <<>>) =>
        /\ \A i \in 1..Len(cards) : cards[i].hitPercent = Num(0)
        /\ \A i \in 1..Len(statsView) : statsView[i].hitPercent = Num(0)

\* C6: == passes exactly when the strings of the two operands are equal, and
\* != exactly when they differ.
C6_StringEquality ==
    PresentCall =>
        /\ call.condition.op = "==" =>
              (ret.condition.pass = TRUE
                  <=> String(LookedUp) = String(call.condition.value))
        /\ call.condition.op = "!=" =>
              (ret.condition.pass = TRUE
                  <=> String(LookedUp) # String(call.condition.value))

\* the number 5 against the string "5"
C6_Witness ==
    /\ PresentCall
    /\ call.condition.op = "=="
    /\ LookedUp = Num(5)
    /\ call.condition.value = Str(<<"5">>)
    /\ ret.condition.pass = TRUE

Compare(op, a, b) ==
    CASE op = ">" -> a > b
      [] op = "<" -> a < b
      [] op = ">=" -> a >= b
      [] OTHER -> a <= b

\* C7: a numeric operator fails when an operand does not parse, and is the
\* comparison of the two parsed numbers when both do.
C7_NumericComparison ==
    (PresentCall /\ call.condition.op \in NumericOps) =>
        IF ParseFloat(LookedUp) = NaN \/ ParseFloat(call.condition.value) = NaN
        THEN ret.condition.pass = FALSE
        ELSE ret.condition.pass =
                Compare(call.condition.op, ParseFloat(LookedUp).n,
                        ParseFloat(call.condition.value).n)

\* the number 5 under >= against a value that does not parse
C7_Witness ==
    /\ PresentCall
    /\ call.condition.op = ">="
    /\ LookedUp = Num(5)
    /\ call.condition.value = Str(<<"a", "b">>)
    /\ ret.condition.pass = FALSE

\* C8: out_of_hours passes exactly when the number looked up is >= 22 or
\* <= 5, whatever condition.value is.
C8_OutOfHours ==
    (PresentCall /\ call.condition.op = "out_of_hours") =>
        /\ ret.condition.pass =
              (/\ ParseFloat(LookedUp) # NaN
               /\ (ParseFloat(LookedUp).n >= 22 \/ ParseFloat(LookedUp).n <= 5))
        /\ \A v \in ConditionValues :
              checkOneCondition([call.condition EXCEPT !.value = v],
                                call.transaction, call.featureVector).pass
                  = ret.condition.pass
        /\ LookedUp = Num(23) => ret.condition.pass = TRUE
        /\ LookedUp = Num(12) => ret.condition.pass = FALSE

\* hour 23 under a value that parses as 5
C8_Witness ==
    /\ PresentCall
    /\ call.condition.op = "out_of_hours"
    /\ call.condition.value = Num(5)
    /\ LookedUp = Num(23)
    /\ ret.condition.pass = TRUE

KnownOps ==
    {"==", "!=", ">", "<", ">=", "<=", "contains", "out_of_hours"}

\* C9: every call of checkOneCondition returns a result with a boolean pass,
\* false for an op outside the eight known ones.
C9_TotalResult ==
    IsCall("checkOneCondition") =>
        /\ ret.condition.pass \in BOOLEAN
        /\ ret.condition.field = call.condition.field
        /\ ret.condition.actual = IF MissingValue THEN NotFound ELSE LookedUp
        /\ (call.condition.op \notin KnownOps) => ret.condition.pass = FALSE

\* an unknown op on a present value of a source that is neither raw nor derived
C9_Witness ==
    /\ PresentCall
    /\ call.condition.op \notin KnownOps
    /\ call.condition.source \notin {"raw", "derived"}
    /\ ret.condition.pass = FALSE

\* C10: a call of an evaluation function changes neither the collections nor
\* the selection state.
C10_EvaluationChangesNothing ==
    [][call' # NoCall => UNCHANGED <<selection, collections>>]_vars

\* checkAllRules has returned one entry per loaded rule
C10_Witness ==
    /\ IsCall("checkAllRules")
    /\ Len(rules) > 0
    /\ Len(ret.all) = Len(rules)
    /\ transactions = txData
    /\ stepIndex = NoStep

\* C11: checkOneRule called again on the same rule and the same transaction
\* returns the pass and the condition results it returned the first time,
\* whatever handlers of the dashboard ran in between.
C11_SameResultAgain ==
    Truthy(firstEval) /\ IsCall("checkOneRule") => ret.rule = firstEval.obj.result

\* the second call follows a change of rule, of transaction, of filter and of
\* step, on a rule with a derived condition
C11_Witness ==
    /\ Truthy(firstEval)
    /\ IsCall("checkOneRule")
    /\ Len(firstEval.obj.result.results) >= 2
    /\ Truthy(selectedRule) /\ selectedRule.obj # firstEval.obj.rule
    /\ Truthy(selectedTx) /\ selectedTx.obj # firstEval.obj.transaction
    /\ filterMode = "fail"
    /\ stepIndex >= 0
    /\ statsView # <<>>

\* the orders a sequence of n conditions can be written in
Orders(n) == {f \in [1..n -> 1..n] : \A i, j \in 1..n : f[i] = f[j] => i = j}

Reordered(seq, f) == [i \in 1..Len(seq) |-> seq[f[i]]]

WithConditions(rule, conditions) == [rule EXCEPT !.conditions = conditions]

\* the result again is the result first, its condition results in order f
SameInOrder(first, again, f) ==
    /\ again.pass = first.pass
    /\ again.results = Reordered(first.results, f)

\* C12: checkOneRule on the conditions of a rule written in any other order
\* returns the same overall pass, and the same condition results in that
\* other order.
C12_OrderOfConditions ==
    IsCall("checkOneRule") =>
        \A f \in Orders(Len(call.rule.conditions)) :
            SameInOrder(ret.rule,
                        CheckOneRuleIn(featureVectors,
                            WithConditions(call.rule,
                                           Reordered(call.rule.conditions, f)),
                            call.transaction),
                        f)

\* a rule of several conditions whose first passes and whose last fails
C12_Witness ==
    /\ IsCall("checkOneRule")
    /\ Len(call.rule.conditions) >= 2
    /\ call.rule.conditions[1] # call.rule.conditions[Len(call.rule.conditions)]
    /\ ret.rule.results[1].pass = TRUE
    /\ ret.rule.results[Len(ret.rule.results)].pass = FALSE
    /\ ret.rule.pass = FALSE

\* round(100 * passCount / totalCount), a half rounded up
Percentage(passCount, totalCount) ==
    (200 * passCount + totalCount) \div (2 * totalCount)

\* the transactions that pass rule i
Passing(i) ==
    {j \in 1..Len(transactions) :
        CheckOneRuleIn(featureVectors, rules[i], transactions[j]).pass = TRUE}

RightPercent(hitPercent, passCount, totalCount) ==
    /\ hitPercent = Num(Percentage(passCount, totalCount))
    /\ hitPercent.n \in 0..100
    /\ passCount = 0 => hitPercent = Num(0)
    /\ passCount = totalCount => hitPercent = Num(100)

\* C13: with at least one transaction loaded, the hit percentage shown for a
\* rule, on its card and in the statistics view, is
\* round(100 * passCount / totalCount): 0 when no transaction passes, 100
\* when all do, and always within 0..100.
C13_HitPercentage ==
    loadPc = "done" /\ Len(transactions) > 0 =>
        /\ \A i \in 1..Len(cards) :
              RightPercent(cards[i].hitPercent, Cardinality(Passing(i)),
                           Len(transactions))
        /\ \A i \in 1..Len(statsView) :
              RightPercent(statsView[i].hitPercent, Cardinality(Passing(i)),
                           Len(transactions))

\* C14: once loadData has finished, stepIndex is at least -1 and at most the
\* index of the last condition of the selected rule (-1 when no rule is
\* selected), whatever handlers have run.
C14_StepIndexInRange ==
    loadPc = "done" =>
        /\ stepIndex >= NoStep
        /\ stepIndex <= (IF Truthy(selectedRule)
                         THEN Len(selectedRule.obj.conditions) - 1 ELSE NoStep)

\* the debugger stands on the last condition of a rule of several that was
\* selected after loading
C14_Witness ==
    /\ loadPc = "done"
    /\ Truthy(selectedRule) /\ Truthy(selectedTx)
    /\ selectedRule.obj # rules[1]
    /\ stepIndex = Len(selectedRule.obj.conditions) - 1
    /\ stepIndex >= 1
    /\ inspector.step = stepIndex

\* the positions of the rules of that id
WithId(ruleId) == {i \in 1..Len(rules) : rules[i].rule_id = ruleId}

\* the first rule of that id, or the selected rule when there is none
SwitchedTo(ruleId) ==
    IF WithId(ruleId) = {} THEN selectedRule
    ELSE Found(rules[CHOOSE i \in WithId(ruleId) : \A j \in WithId(ruleId) : i <= j])

\* what switchToRule(ruleId) and a click on card i leave of the selection
SwitchFrame(ruleId) ==
    /\ stepIndex' = NoStep
    /\ selectedTx' = selectedTx
    /\ filterMode' = filterMode
    /\ selectedRule' = SwitchedTo(ruleId)

CardFrame(i) ==
    /\ selectedRule' = Found(rules[i])
    /\ selectedTx' = Absent
    /\ stepIndex' = NoStep

\* C15: switchToRule(ruleId) sets stepIndex to -1, leaves selectedTx and
\* filterMode as they are and selects the first rule whose rule_id is ruleId,
\* or leaves selectedRule as it is when no rule has that id; a click on a
\* rule card selects its rule, sets selectedTx to null and stepIndex to -1.
\* (Every step is such a frame or is not a step of that handler.)
C15_SwitchAndCardFrame ==
    [][/\ \A ruleId \in RuleIds : SwitchFrame(ruleId) \/ ~switchToRule(ruleId)
       /\ \A i \in 1..Len(cards) : CardFrame(i) \/ ~ClickRuleCard(i)]_vars

\* the inspector shows the selected transaction against a rule other than
\* the first, under a filter other than "all" and with the debugger reset
C15_Witness ==
    /\ loadPc = "done"
    /\ Truthy(selectedTx)
    /\ Truthy(selectedRule) /\ selectedRule.obj # rules[1]
    /\ filterMode = "pass"
    /\ stepIndex = NoStep
    /\ inspector.shown
    /\ inspector.active = Found(CheckOneRuleIn(featureVectors, selectedRule.obj,
                                               selectedTx.obj))
    /\ table.rows = <<>>

====
